---- MODULE Spec2Model ----
(***************************************************************************)
(* minigo: the generic CRUD controller (controllers/generic.go), the       *)
(* per-request transaction middleware (middlewares/transaction.go), the    *)
(* request binder (utils/common.go) and the trigger-maintained row counter *)
(* (utils/database.go), over the one registered model, models.User.        *)
(*                                                                         *)
(* Strings are tuples of one-character strings, so that LIKE, Atoi and     *)
(* fmt.Sprint are computed.  A JSON value is a tagged record (JStr, JNum,  *)
(* JObj); a generic record (map[string]interface{}) is a function from     *)
(* key names to JSON values.                                               *)
(***************************************************************************)
EXTENDS Integers, Sequences, FiniteSets, TLC

----------------------------------------------------------------------------
(* Bounds of the model                                                     *)

NumReq == 1
MaxRows == 2
MaxTime == 2
MaxBatch == 2
NumConc == 2

Reqs == 1..NumReq

\* the requests that run side by side in ConcSpec
ConcReqs == 1..NumConc

----------------------------------------------------------------------------
(* Strings and JSON values                                                 *)

Digits == <<"0", "1", "2", "3", "4", "5", "6", "7", "8", "9">>

DigitSet == {Digits[i] : i \in 1..10}

DigitVal(c) == (CHOOSE i \in 1..10 : Digits[i] = c) - 1

RECURSIVE DecValue(_)
DecValue(s) == IF s = <<>> THEN 0
               ELSE 10 * DecValue(SubSeq(s, 1, Len(s) - 1)) + DigitVal(s[Len(s)])

\* strconv.ParseUint(val, 10, 64): digits only, no sign
ParseUint(s) ==
    IF s # <<>> /\ \A i \in 1..Len(s) : s[i] \in DigitSet
    THEN [ok |-> TRUE, n |-> DecValue(s)]
    ELSE [ok |-> FALSE, n |-> 0]

\* strconv.Atoi: an optional sign, then digits
Atoi(s) ==
    IF s # <<>> /\ s[1] \in {"-", "+"}
    THEN LET u == ParseUint(Tail(s))
         IN  [ok |-> u.ok, n |-> IF s[1] = "-" THEN 0 - u.n ELSE u.n]
    ELSE ParseUint(s)

RECURSIVE Itoa(_)
Itoa(n) == IF n < 0 THEN <<"-">> \o Itoa(0 - n)
           ELSE IF n < 10 THEN <<Digits[n + 1]>>
           ELSE Itoa(n \div 10) \o <<Digits[(n % 10) + 1]>>

JStr(s) == [t |-> "str", s |-> s, n |-> 0]
JNum(n) == [t |-> "num", s |-> <<>>, n |-> n]
JObj(id) == [t |-> "obj", s |-> <<>>, n |-> id]

\* fmt.Sprint(value) of a JSON string or a JSON number; an object prints as
\* a Go map literal
Sprint(v) == CASE v.t = "str" -> v.s
               [] v.t = "num" -> Itoa(v.n)
               [] OTHER -> <<"m", "a", "p", "[", "]">>

\* the empty generic record
NoKeys == [k \in {} |-> JNum(0)]

Min(a, b) == IF a < b THEN a ELSE b

Range(f) == {f[i] : i \in DOMAIN f}

\* SQL: s LIKE '%' || term || '%', where % in the term matches any run of
\* characters and _ matches any one character
RECURSIVE LikeMatch(_, _)
LikeMatch(pat, s) ==
    IF pat = <<>> THEN s = <<>>
    ELSE IF pat[1] = "%"
         THEN \E k \in 0..Len(s) : LikeMatch(Tail(pat), SubSeq(s, k + 1, Len(s)))
         ELSE /\ s # <<>>
              /\ pat[1] = "_" \/ pat[1] = s[1]
              /\ LikeMatch(Tail(pat), Tail(s))

Like(s, term) == LikeMatch(<<"%">> \o term \o <<"%">>, s)

----------------------------------------------------------------------------
(* The schema of models.User: Go field name, reflect kind, the lower-cased *)
(* name BindContext matches on, the column name (Camel2Snake) and the      *)
(* ctags tag split at commas                                               *)

BaseModelFields == <<
    [name |-> "ID", kind |-> "uint", lower |-> "id", column |-> "id", ctags |-> <<>>],
    [name |-> "CreatedAt", kind |-> "int", lower |-> "createdat", column |-> "created_at", ctags |-> <<>>],
    [name |-> "UpdatedAt", kind |-> "int", lower |-> "updatedat", column |-> "updated_at", ctags |-> <<>>] >>

UserFields == <<
    [name |-> "BaseModel", kind |-> "struct", lower |-> "basemodel", column |-> "base_model", ctags |-> <<>>],
    [name |-> "DeletedAt", kind |-> "uint", lower |-> "deletedat", column |-> "deleted_at", ctags |-> <<>>],
    [name |-> "Username", kind |-> "string", lower |-> "username", column |-> "username",
     ctags |-> <<"username", "q", "u">>],
    [name |-> "Email", kind |-> "string", lower |-> "email", column |-> "email",
     ctags |-> <<"email", "q", "u">>],
    [name |-> "Password", kind |-> "string", lower |-> "password", column |-> "password",
     ctags |-> <<"password", "u">>] >>

TableName == "users"

\* utils.ExistsIn
ExistsIn(slice, item) == \E i \in 1..Len(slice) : slice[i] = item

\* the loop over modelType.Field(i) that collects the tag names carrying flag
TaggedFields(flag) ==
    LET tagged(f) == /\ f.ctags # <<>>
                     /\ f.ctags[1] # ""
                     /\ ExistsIn(Tail(f.ctags), flag)
    IN  SelectSeq(UserFields, tagged)

TagNames(fs) == [i \in 1..Len(fs) |-> fs[i].ctags[1]]

allowedQueryFields == TagNames(TaggedFields("q"))

allowedOrderFields == <<"id">> \o TagNames(TaggedFields("o"))

allowedUpdateFields == TagNames(TaggedFields("u"))

\* the handlers that walk the model's fields and read their ctags anew
\* (generic.go:78-95 in genericList, 410-426 in genericUpdate), by the name
\* the handler's outcome carries
BuildsSchema(op) == op \in {"list", "update", "batch_update"}

----------------------------------------------------------------------------
(* utils.BindContext / setValue on a zero models.User                      *)

\* utils.ToUint64 of a JSON value
ToUint64(v) == CASE v.t = "num" -> [ok |-> v.n >= 0, n |-> IF v.n >= 0 THEN v.n ELSE 0]
                 [] v.t = "str" -> ParseUint(v.s)
                 [] OTHER -> [ok |-> FALSE, n |-> 0]

Has(data, key) == key \in DOMAIN data

\* BindContext(data, &User{}): ok = FALSE is the error return.  The embedded
\* BaseModel binds from an object under "basemodel" (JObj(n) is {"id": n}).
BindContext(data) ==
    LET base == IF Has(data, "basemodel")
                THEN IF data["basemodel"].t = "obj"
                     THEN ToUint64(JNum(data["basemodel"].n))
                     ELSE [ok |-> FALSE, n |-> 0]
                ELSE [ok |-> TRUE, n |-> 0]
        del == IF Has(data, "deletedat") THEN ToUint64(data["deletedat"])
               ELSE [ok |-> TRUE, n |-> 0]
        str(key) == IF Has(data, key) THEN Sprint(data[key]) ELSE <<>>
    IN  [ok |-> base.ok /\ del.ok,
         v |-> [id |-> base.n, username |-> str("username"), email |-> str("email"),
                password |-> str("password"), deleted_at |-> del.n]]

----------------------------------------------------------------------------
(* State                                                                   *)

VARIABLES
    dbType,      \* the backend CreateCounter4Table installed the triggers for
    rows,        \* committed rows of table users, in insertion order
    counters,    \* committed rows of table counters: table name -> counter
    lock,        \* the request whose transaction holds the write lock, or 0
    txRows,      \* the lock holder's uncommitted view of users (= rows when free)
    txCounters,  \* the lock holder's uncommitted view of counters
    req          \* per request slot: the gin.Context and its transaction

vars == <<dbType, rows, counters, lock, txRows, txCounters, req>>

DBTypes == {"mysql", "postgresql", "sqlite"}

----------------------------------------------------------------------------
(* The store: table users with its indexes, soft delete and the triggers   *)

\* uniqueIndex u_user_username (deleted_at, username), u_user_email
\* (deleted_at, email), and the primary key
UniqueOK(rs) ==
    \A i, j \in 1..Len(rs) :
        i < j => /\ rs[i].id # rs[j].id
                 /\ ~(rs[i].deleted_at = rs[j].deleted_at /\ rs[i].username = rs[j].username)
                 /\ ~(rs[i].deleted_at = rs[j].deleted_at /\ rs[i].email = rs[j].email)

\* UPDATE counters SET counter = counter + delta WHERE name = '<table>'
Bump(ctrs, delta) ==
    IF TableName \in DOMAIN ctrs
    THEN [ctrs EXCEPT ![TableName] = @ + delta]
    ELSE ctrs

\* trigger after_<table>_insert
InsertTrigger(db, new) ==
    IF db = "sqlite" THEN 1
    ELSE IF new.deleted_at = 0 THEN 1 ELSE 0

\* triggers after_<table>_update and after_<table>_update_restore
UpdateTrigger(old, new) ==
    (IF old.deleted_at = 0 /\ new.deleted_at # 0 THEN 0 - 1 ELSE 0)
    + (IF old.deleted_at # 0 /\ new.deleted_at = 0 THEN 1 ELSE 0)

RECURSIVE SumSeq(_)
SumSeq(s) == IF s = <<>> THEN 0 ELSE s[1] + SumSeq(Tail(s))

MaxId(rs) == IF rs = <<>> THEN 0
             ELSE CHOOSE m \in {rs[i].id : i \in 1..Len(rs)} :
                      \A i \in 1..Len(rs) : rs[i].id <= m

\* a database state as one transaction sees it
DB(rs, ctrs) == [rows |-> rs, counters |-> ctrs]

\* db.Create(modelPtr): INSERT of the bound struct; a zero ID is assigned by
\* the store, updated_at is stamped (autoUpdateTime).  err = TRUE leaves the
\* database as it was.
Insert(db, d, u, t) ==
    LET new == [id |-> IF u.id = 0 THEN MaxId(d.rows) + 1 ELSE u.id,
                username |-> u.username, email |-> u.email, password |-> u.password,
                deleted_at |-> u.deleted_at, updated_at |-> t]
        rs == Append(d.rows, new)
    IN  IF UniqueOK(rs)
        THEN [err |-> FALSE, id |-> new.id,
              d |-> DB(rs, Bump(d.counters, InsertTrigger(db, new)))]
        ELSE [err |-> TRUE, id |-> 0, d |-> d]

\* an UPDATE of users: every row in hits becomes its row of set; the
\* row-level update triggers fire for each such row
UpdateWhere(d, hits, set) ==
    LET rs == [i \in 1..Len(d.rows) |-> IF i \in hits THEN set[i] ELSE d.rows[i]]
        deltas == [i \in 1..Len(d.rows) |->
                  IF i \in hits THEN UpdateTrigger(d.rows[i], rs[i]) ELSE 0]
        n == Cardinality(hits)
    IN  IF UniqueOK(rs)
        THEN [err |-> FALSE, n |-> n, d |-> DB(rs, Bump(d.counters, SumSeq(deltas)))]
        ELSE [err |-> TRUE, n |-> 0, d |-> d]

\* gorm soft delete (soft_delete.DeletedAt): UPDATE users SET deleted_at = now
\* WHERE <cond> AND deleted_at = 0
SoftDeleteAgain(d, hits, t) ==
    LET set == [i \in 1..Len(d.rows) |-> [d.rows[i] EXCEPT !.deleted_at = t]]
    IN  UpdateWhere(d, hits, set)

SoftDelete(d, hits, t) ==
    LET live == {i \in hits : d.rows[i].deleted_at = 0}
        set == [i \in 1..Len(d.rows) |-> [d.rows[i] EXCEPT !.deleted_at = t]]
    IN  UpdateWhere(d, live, set)

\* the column value a JSON value is stored as in a varchar column
ColumnValue(v) == Sprint(v)

\* the value a JSON value is stored as in an integer column
NumValue(v) == IF v.t = "num" THEN v.n ELSE Atoi(v.s).n

\* db.Model(modelPtr).Where("id = ?", id).Updates(upd):
\* UPDATE users SET <k> = <v>.., updated_at = now WHERE id = ? AND deleted_at = 0
\* (updated_at is stamped by autoUpdateTime unless upd assigns it)
Updates(d, id, upd, t) ==
    LET hit(row) == row.id = id /\ row.deleted_at = 0
        new(row) == [row EXCEPT
                        !.id = IF Has(upd, "id") THEN NumValue(upd["id"]) ELSE @,
                        !.username = IF Has(upd, "username") THEN ColumnValue(upd["username"]) ELSE @,
                        !.email = IF Has(upd, "email") THEN ColumnValue(upd["email"]) ELSE @,
                        !.password = IF Has(upd, "password") THEN ColumnValue(upd["password"]) ELSE @,
                        !.deleted_at = IF Has(upd, "deleted_at") THEN NumValue(upd["deleted_at"]) ELSE @,
                        !.updated_at = IF Has(upd, "updated_at") THEN NumValue(upd["updated_at"]) ELSE t]
    IN  UpdateWhere(d, {i \in 1..Len(d.rows) : hit(d.rows[i])}, [i \in 1..Len(d.rows) |-> new(d.rows[i])])

\* a restore written to the store directly: UPDATE users SET deleted_at = 0
\* WHERE id = ? AND deleted_at != 0
RestoreRow(d, id) ==
    LET hit(row) == row.id = id /\ row.deleted_at # 0
    IN  UpdateWhere(d, {i \in 1..Len(d.rows) : hit(d.rows[i])},
                    [i \in 1..Len(d.rows) |-> [d.rows[i] EXCEPT !.deleted_at = 0]])

\* time.Now() as a statement reads it: no earlier than any timestamp the
\* database already holds
Times(d) ==
    {t \in 1..MaxTime : \A i \in 1..Len(d.rows) :
        d.rows[i].deleted_at <= t /\ d.rows[i].updated_at <= t}

\* SELECT COUNT(*) FROM users WHERE deleted_at = 0
ActiveCount(rs) == Cardinality({i \in 1..Len(rs) : rs[i].deleted_at = 0})

----------------------------------------------------------------------------
(* The request context and middlewares.TransactionMiddleware               *)

\* what the handler did, kept beside the context for the properties: the
\* handler, the branch it returned from (why), the index of the record it
\* returned at (k, 0 when it ran to the end), whether an object of an update
\* payload had no updatable key (bare) or had updatable keys and others
\* (mixed), and where a list total came from (src)
NoOut == [op |-> "none", why |-> "none", k |-> 0, bare |-> FALSE, mixed |-> FALSE,
          src |-> "none"]

Out(op, why, k) == [NoOut EXCEPT !.op = op, !.why = why, !.k = k]

\* c.JSON(code, body): total is the list total or the number of rows a delete
\* affected, data the returned records as the client sees them
Resp(code) == [code |-> code, total |-> 0, page |-> 0, size |-> 0, data |-> <<>>]

\* the JSON encoding of a models.User: password and deleted_at are json:"-"
Public(row) == [id |-> row.id, username |-> row.username, email |-> row.email]

\* errs is len(c.Errors); txlog the calls made on the transaction handle, in
\* order; commitErr whether tx.Commit() returned an error; tx the state the
\* transaction is in; panic the value the handler panicked with and raised
\* the value the middleware panicked with again
IdleReq == [pc |-> "idle", errs |-> 0, txlog |-> <<>>, commitErr |-> FALSE, tx |-> "none",
            resp |-> <<>>, panic |-> "none", raised |-> "none", out |-> NoOut]

\* what request r reads: its own uncommitted writes, else the committed store
View(r) == IF lock = r THEN DB(txRows, txCounters) ELSE DB(rows, counters)

\* tx := db.Begin(); c.Set("tx", tx)
Begin(r) ==
    /\ req[r].pc \in {"idle", "done"}
    /\ req' = [req EXCEPT ![r] = [IdleReq EXCEPT !.pc = "open", !.tx = "open"]]
    /\ UNCHANGED <<dbType, rows, counters, lock, txRows, txCounters>>

\* c.Next() returned: the handler left res = [d, errs, resp, out]; a handler
\* that changed its view holds the write lock until the transaction ends
Handled(r, res) ==
    /\ req[r].pc = "open"
    /\ res.d = View(r) \/ lock \in {0, r}
    /\ req' = [req EXCEPT ![r] = [@ EXCEPT !.pc = "handled", !.errs = res.errs,
                                            !.resp = res.resp, !.out = res.out]]
    /\ IF res.d = View(r)
       THEN UNCHANGED <<lock, txRows, txCounters>>
       ELSE /\ lock' = r
            /\ txRows' = res.d.rows
            /\ txCounters' = res.d.counters
    /\ UNCHANGED <<dbType, rows, counters>>

\* c.Next() panicked with value v before the handler wrote anything
Panicked(r, op, v) ==
    /\ req[r].pc = "open"
    /\ req' = [req EXCEPT ![r] = [@ EXCEPT !.pc = "panicked", !.panic = v,
                                            !.out = Out(op, "panic", 0)]]
    /\ UNCHANGED <<dbType, rows, counters, lock, txRows, txCounters>>

\* tx.Commit() succeeded: the transaction's writes become the committed store
CommitStore(r) ==
    IF lock = r
    THEN /\ rows' = txRows
         /\ counters' = txCounters
         /\ lock' = 0
         /\ UNCHANGED <<txRows, txCounters>>
    ELSE UNCHANGED <<rows, counters, lock, txRows, txCounters>>

\* DropStore that leaves the counter as the transaction's triggers set it
DropStoreKeepingCounter(r) ==
    IF lock = r
    THEN /\ lock' = 0
         /\ counters' = txCounters
         /\ txRows' = rows
         /\ UNCHANGED <<rows, txCounters>>
    ELSE UNCHANGED <<rows, counters, lock, txRows, txCounters>>

\* tx.Rollback(), or a failed tx.Commit(): the transaction's writes are dropped
DropStore(r) ==
    IF lock = r
    THEN /\ lock' = 0
         /\ txRows' = rows
         /\ txCounters' = counters
         /\ UNCHANGED <<rows, counters>>
    ELSE UNCHANGED <<rows, counters, lock, txRows, txCounters>>

\* AfterNext without the Rollback that follows a failed Commit
AfterNextNoRollbackAfterCommit(errs, commitFails) ==
    IF errs > 0 THEN [calls |-> <<"Rollback">>, commitErr |-> FALSE, tx |-> "rolledback"]
    ELSE [calls |-> <<"Commit">>, commitErr |-> commitFails,
          tx |-> IF commitFails THEN "rolledback" ELSE "committed"]

\* AfterNext without the look at c.Errors
AfterNextIgnoringErrors(errs, commitFails) ==
    IF commitFails
    THEN [calls |-> <<"Commit", "Rollback">>, commitErr |-> TRUE, tx |-> "rolledback"]
    ELSE [calls |-> <<"Commit">>, commitErr |-> FALSE, tx |-> "committed"]

\* the calls the middleware makes after c.Next() returned, and the state they
\* leave the transaction in
AfterNext(errs, commitFails) ==
    IF errs > 0 THEN [calls |-> <<"Rollback">>, commitErr |-> FALSE, tx |-> "rolledback"]
    ELSE IF commitFails
    THEN [calls |-> <<"Commit", "Rollback">>, commitErr |-> TRUE, tx |-> "rolledback"]
    ELSE [calls |-> <<"Commit">>, commitErr |-> FALSE, tx |-> "committed"]

\* transaction.go:28-35
Finish(r, commitFails) ==
    /\ req[r].pc = "handled"
    /\ LET a == AfterNext(req[r].errs, commitFails)
       IN  /\ req' = [req EXCEPT ![r] = [@ EXCEPT !.pc = "done", !.txlog = @ \o a.calls,
                                                   !.commitErr = a.commitErr, !.tx = a.tx]]
           /\ IF a.tx = "committed" THEN CommitStore(r) ELSE DropStore(r)
    /\ UNCHANGED dbType

\* AfterPanic with a recover() that rolls back and swallows the panic
AfterPanicSwallowed(v) == [calls |-> <<"Rollback">>, tx |-> "rolledback", raised |-> "none"]

\* the calls of the deferred recover() and the value it panics with again
AfterPanic(v) == [calls |-> <<"Rollback">>, tx |-> "rolledback", raised |-> v]

\* transaction.go:18-23
Recover(r) ==
    /\ req[r].pc = "panicked"
    /\ LET a == AfterPanic(req[r].panic)
       IN  /\ req' = [req EXCEPT ![r] = [@ EXCEPT !.pc = "done", !.txlog = @ \o a.calls,
                                                   !.tx = a.tx, !.raised = a.raised]]
           /\ IF a.tx = "committed" THEN CommitStore(r) ELSE DropStore(r)
    /\ UNCHANGED dbType

----------------------------------------------------------------------------
(* utils.UnbindContext: the request body as generic records                *)

\* A request body: its Content-Type, what the bytes parse to (shape) and the
\* parsed elements; an element is a JSON object (obj) or some other value.
JSONType == "application/json"
FormType == "application/x-www-form-urlencoded"
MultipartType == "multipart/form-data"

Elem(rec) == [obj |-> TRUE, rec |-> rec]
NonObject == [obj |-> FALSE, rec |-> NoKeys]

Body(ctype, shape, items) == [ctype |-> ctype, shape |-> shape, items |-> items]

Recs(items) == [i \in 1..Len(items) |-> items[i].rec]

\* UnbindContext that skips the elements of a JSON array that are no objects
UnbindContextSkipping(body) ==
    IF body.ctype = JSONType /\ body.shape \in {"object", "array"}
    THEN [err |-> FALSE,
          results |-> Recs(SelectSeq(body.items, LAMBDA item : item.obj))]
    ELSE IF body.ctype \in {FormType, MultipartType} /\ body.shape = "form"
    THEN [err |-> FALSE, results |-> Recs(body.items)]
    ELSE [err |-> TRUE, results |-> <<>>]

\* common.go:29-113; err = TRUE returns nil records
UnbindContext(body) ==
    IF body.ctype = JSONType
    THEN CASE body.shape = "object" -> [err |-> FALSE, results |-> Recs(body.items)]
           [] body.shape = "array" ->
                IF \A i \in 1..Len(body.items) : body.items[i].obj
                THEN [err |-> FALSE, results |-> Recs(body.items)]
                ELSE [err |-> TRUE, results |-> <<>>]
           [] OTHER -> [err |-> TRUE, results |-> <<>>]
    ELSE IF body.ctype \in {FormType, MultipartType}
    THEN IF body.shape = "form"
         THEN [err |-> FALSE, results |-> Recs(body.items)]
         ELSE [err |-> TRUE, results |-> <<>>]
    ELSE [err |-> TRUE, results |-> <<>>]

\* common.go:32-39, 66-77: what a read of c.Request.Body yields once
\* UnbindContext has returned, as the outcomes that can occur: all of the
\* original bytes, a part of them or none.  The body is set to a buffer over
\* the bytes read (39); ParseForm and ParseMultipartForm then read from that
\* buffer, to its end when they succeed and up to the place of the error when
\* a multipart body is malformed.
BodyLeft(body) ==
    IF body.ctype = FormType THEN {"none"}
    ELSE IF body.ctype = MultipartType
    THEN IF body.shape = "form" THEN {"none"} ELSE {"all", "part", "none"}
    ELSE {"all"}

----------------------------------------------------------------------------
(* controllers.genericCreate                                               *)

\* the loop of generic.go:236-257 from record i on; fault is the index of a
\* db.Create the store refuses for a reason of its own (0: none); k is the
\* index of the record the loop returned at (0: it ran to the end)
RECURSIVE CreateLoop(_, _, _, _, _, _, _)
CreateLoop(db, d, ctx, i, fault, t, last) ==
    IF i > Len(ctx) THEN [d |-> d, k |-> 0, why |-> "ok", last |-> last]
    ELSE LET b == BindContext(ctx[i])
             ins == Insert(db, d, b.v, t)
         IN  IF ~b.ok THEN [d |-> d, k |-> i, why |-> "bind", last |-> last]
             ELSE IF fault = i \/ ins.err
                  THEN [d |-> d, k |-> i, why |-> "store", last |-> last]
                  ELSE CreateLoop(db, ins.d, ctx, i + 1, fault, t,
                                  [id |-> ins.id, username |-> b.v.username,
                                   email |-> b.v.email])

ZeroPublic == [id |-> 0, username |-> <<>>, email |-> <<>>]

\* CreateResult without the c.Error calls of the loop
CreateResultNoError(db, d, body, fault, t) ==
    LET ub == UnbindContext(body)
        first == IF ub.err THEN <<Resp(400)>> ELSE <<>>
        loop == CreateLoop(db, d, ub.results, 1, fault, t, ZeroPublic)
    IN  [d |-> loop.d,
         errs |-> 0,
         resp |-> first \o << IF loop.k = 0
                              THEN [Resp(201) EXCEPT !.data = <<loop.last>>]
                              ELSE Resp(400) >>,
         out |-> Out("create", IF ub.err THEN "unbind" ELSE loop.why, loop.k)]

\* generic.go:221-260
CreateResult(db, d, body, fault, t) ==
    LET ub == UnbindContext(body)
        first == IF ub.err THEN <<Resp(400)>> ELSE <<>>
        loop == CreateLoop(db, d, ub.results, 1, fault, t, ZeroPublic)
    IN  [d |-> loop.d,
         errs |-> IF loop.k = 0 THEN 0 ELSE 1,
         resp |-> first \o << IF loop.k = 0
                              THEN [Resp(201) EXCEPT !.data = <<loop.last>>]
                              ELSE Resp(400) >>,
         out |-> Out("create", IF ub.err THEN "unbind" ELSE loop.why, loop.k)]

----------------------------------------------------------------------------
(* controllers.genericUpdate                                               *)

\* FilterUpdates with every key let through
FilterUpdatesKeepAll(obj) == obj

\* generic.go:486-491 and 527-532: the keys of obj that are in the whitelist
FilterUpdates(obj) ==
    LET keep == {k \in DOMAIN obj : ExistsIn(allowedUpdateFields, k)}
    IN  [k \in keep |-> obj[k]]

\* the keys of obj that name a field tagged u, and the other keys
Updatable(obj) == DOMAIN obj \cap Range(allowedUpdateFields)

NotUpdatable(obj) == DOMAIN obj \ Range(allowedUpdateFields)

\* out with what the objects of the payload hold
Payload(out, objs) ==
    [out EXCEPT !.bare = \E i \in 1..Len(objs) : Updatable(objs[i]) = {},
                !.mixed = \E i \in 1..Len(objs) :
                              Updatable(objs[i]) # {} /\ NotUpdatable(objs[i]) # {}]

\* UpdateOneResult with an empty whitelist result answered as an update of
\* nothing
UpdateOneResultNoOp(d, pathId, body, fault, t) ==
    LET ub == UnbindContext(body)
        first == IF ub.err THEN <<Resp(400)>> ELSE <<>>
        obj == ub.results[1]
        filtered == FilterUpdates(obj)
        upd == Updates(d, Atoi(pathId).n, filtered, t)
        n == Len(ub.results)
    IN  IF n # 1
        THEN [d |-> d, errs |-> 0, resp |-> first \o <<Resp(400)>>,
              out |-> Out("update", IF ub.err THEN "unbind" ELSE "body", 0)]
        ELSE IF fault = 1 \/ upd.err
        THEN [d |-> d, errs |-> 1, resp |-> <<Resp(400)>>,
              out |-> Payload(Out("update", "store", 1), ub.results)]
        ELSE [d |-> upd.d, errs |-> 0, resp |-> <<Resp(200)>>,
              out |-> Payload(Out("update", "ok", 0), ub.results)]

\* the single update, generic.go:511-549, of the row the path names
UpdateOneResult(d, pathId, body, fault, t) ==
    LET ub == UnbindContext(body)
        first == IF ub.err THEN <<Resp(400)>> ELSE <<>>
        obj == ub.results[1]
        filtered == FilterUpdates(obj)
        upd == Updates(d, Atoi(pathId).n, filtered, t)
        n == Len(ub.results)
    IN  IF n # 1
        THEN [d |-> d, errs |-> 0, resp |-> first \o <<Resp(400)>>,
              out |-> Out("update", IF ub.err THEN "unbind" ELSE "body", 0)]
        ELSE IF DOMAIN filtered = {}
        THEN [d |-> d, errs |-> 0, resp |-> <<Resp(400)>>,
              out |-> Payload(Out("update", "no_fields", 1), ub.results)]
        ELSE IF fault = 1 \/ upd.err
        THEN [d |-> d, errs |-> 1, resp |-> <<Resp(400)>>,
              out |-> Payload(Out("update", "store", 1), ub.results)]
        ELSE [d |-> upd.d, errs |-> 0, resp |-> <<Resp(200)>>,
              out |-> Payload(Out("update", "ok", 0), ub.results)]

\* the loop of generic.go:475-507 from object i on
RECURSIVE UpdateLoop(_, _, _, _, _)
UpdateLoop(d, objs, i, fault, t) ==
    IF i > Len(objs) THEN [d |-> d, k |-> 0, why |-> "ok"]
    ELSE LET obj == objs[i]
             filtered == FilterUpdates(obj)
             upd == Updates(d, NumValue(obj["id"]), filtered, t)
         IN  IF ~Has(obj, "id") THEN [d |-> d, k |-> i, why |-> "no_id"]
             ELSE IF DOMAIN filtered = {} THEN [d |-> d, k |-> i, why |-> "no_fields"]
             ELSE IF fault = i \/ upd.err THEN [d |-> d, k |-> i, why |-> "store"]
             ELSE UpdateLoop(upd.d, objs, i + 1, fault, t)

\* generic.go:431-465: the objs of a batch update body, JSON {"objs":[..]} or
\* form objs=[..]; a JSON body that does not bind yields no objs, a form body
\* that does not parse is answered at once (err)
ParseObjs(body) ==
    IF body.shape = "objs" THEN [err |-> FALSE, objs |-> Recs(body.items)]
    ELSE [err |-> body.ctype # JSONType, objs |-> <<>>]

\* UpdateManyResult without the c.Error calls of the loop
UpdateManyResultNoError(d, body, fault, t) ==
    LET po == ParseObjs(body)
        n == Len(po.objs)
        loop == UpdateLoop(d, po.objs, 1, fault, t)
    IN  IF po.err \/ n = 0
        THEN [d |-> d, errs |-> 0, resp |-> <<Resp(400)>>,
              out |-> Out("batch_update", IF po.err THEN "body" ELSE "empty", 0)]
        ELSE IF loop.k # 0
        THEN [d |-> loop.d, errs |-> 0, resp |-> <<Resp(400)>>,
              out |-> Payload(Out("batch_update", loop.why, loop.k), po.objs)]
        ELSE [d |-> loop.d, errs |-> 0, resp |-> <<Resp(200)>>,
              out |-> Payload(Out("batch_update", "ok", 0), po.objs)]

\* the batch update, generic.go:429-509
UpdateManyResult(d, body, fault, t) ==
    LET po == ParseObjs(body)
        n == Len(po.objs)
        loop == UpdateLoop(d, po.objs, 1, fault, t)
    IN  IF po.err \/ n = 0
        THEN [d |-> d, errs |-> 0, resp |-> <<Resp(400)>>,
              out |-> Out("batch_update", IF po.err THEN "body" ELSE "empty", 0)]
        ELSE IF loop.k # 0
        THEN [d |-> loop.d, errs |-> 1, resp |-> <<Resp(400)>>,
              out |-> Payload(Out("batch_update", loop.why, loop.k), po.objs)]
        ELSE [d |-> loop.d, errs |-> 0, resp |-> <<Resp(200)>>,
              out |-> Payload(Out("batch_update", "ok", 0), po.objs)]

\* generic.go:406-551: an empty path id is the batch route
UpdateResult(d, pathId, body, fault, t) ==
    IF pathId = <<>> THEN UpdateManyResult(d, body, fault, t)
    ELSE UpdateOneResult(d, pathId, body, fault, t)

----------------------------------------------------------------------------
(* controllers.genericDelete, genericBatchDelete, genericRetrieve          *)

\* gorm's reading of a string condition, db.Delete(modelPtr, id) and
\* db.First(modelPtr, id): a string strconv.Atoi accepts is the primary key,
\* any other string is SQL text put in the WHERE clause.  Of SQL text the
\* model knows the tautology 1=1; anything else here is no valid condition.
Tautology == <<"1", "=", "1">>

CondError(id) == ~Atoi(id).ok /\ id # Tautology

CondHit(id, row) == IF Atoi(id).ok THEN row.id = Atoi(id).n ELSE id = Tautology

\* generic.go:383-403
DeleteResult(d, id, fault, t) ==
    LET hit(row) == CondHit(id, row)
        del == SoftDelete(d, {i \in 1..Len(d.rows) : hit(d.rows[i])}, t)
    IN  IF CondError(id) \/ fault = 1 \/ del.err
        THEN [d |-> d, errs |-> 1, resp |-> <<Resp(400)>>, out |-> Out("delete", "store", 1)]
        ELSE [d |-> del.d, errs |-> 0, resp |-> <<[Resp(200) EXCEPT !.total = del.n]>>,
              out |-> Out("delete", "ok", 0)]

\* A batch delete request: the Content-Type, the JSON body ([shape, ids]),
\* the ids query parameter split at commas (<<>>: absent or empty) and the
\* form body ([shape, ids]).
DelReq(ctype, json, query, form) ==
    [ctype |-> ctype, json |-> json, query |-> query, form |-> form]

Ids(shape, ids) == [shape |-> shape, ids |-> ids]

AtoiAll(tokens) == [i \in 1..Len(tokens) |-> Atoi(tokens[i]).n]

\* generic.go:267-331: st is "ok", "bad" (answered 400 inside the switch) or
\* "panic" (a failed type assertion, with the panic value pv)
BatchIds(in) ==
    LET ok(ids) == [st |-> "ok", ids |-> ids, pv |-> "none"]
        bad == [st |-> "bad", ids |-> <<>>, pv |-> "none"]
        panic(v) == [st |-> "panic", ids |-> <<>>, pv |-> v]
    IN  IF in.ctype = JSONType
        THEN CASE in.json.shape = "ids" -> ok(in.json.ids)
               [] in.json.shape = "notarray" -> panic("not []interface {}")
               [] in.json.shape = "badelem" -> panic("not float64")
               [] OTHER -> ok(<<>>)
        ELSE IF in.query # <<>>
        THEN IF \A i \in 1..Len(in.query) : Atoi(in.query[i]).ok
             THEN ok(AtoiAll(in.query))
             ELSE bad
        ELSE CASE in.form.shape = "ids" -> ok(in.form.ids)
               [] in.form.shape = "noids" -> ok(<<>>)
               [] OTHER -> bad

\* generic.go:333-353, once the ids are read
BatchDeleteResult(d, in, fault, t) ==
    LET b == BatchIds(in)
        hit(row) == row.id \in Range(b.ids)
        del == SoftDelete(d, {i \in 1..Len(d.rows) : hit(d.rows[i])}, t)
        n == Len(b.ids)
    IN  IF b.st = "bad" \/ n = 0
        THEN [d |-> d, errs |-> 0, resp |-> <<Resp(400)>>,
              out |-> Out("batch_delete", IF b.st = "bad" THEN "body" ELSE "empty", 0)]
        ELSE IF fault = 1 \/ del.err
        THEN [d |-> d, errs |-> 1, resp |-> <<Resp(400)>>,
              out |-> Out("batch_delete", "store", 1)]
        ELSE [d |-> del.d, errs |-> 0, resp |-> <<[Resp(200) EXCEPT !.total = del.n]>>,
              out |-> Out("batch_delete", "ok", 0)]

\* the row with the least id among those that satisfy hit
FirstRow(rs, S) == rs[CHOOSE i \in S : \A j \in S : rs[i].id <= rs[j].id]

\* generic.go:357-380
RetrieveResult(d, id, fault) ==
    LET hit(row) == CondHit(id, row) /\ row.deleted_at = 0
        found == \E i \in 1..Len(d.rows) : hit(d.rows[i])
    IN  IF CondError(id) \/ fault = 1
        THEN [d |-> d, errs |-> 0, resp |-> <<Resp(404)>>, out |-> Out("get", "query", 1)]
        ELSE IF ~found
        THEN [d |-> d, errs |-> 0, resp |-> <<Resp(404)>>, out |-> Out("get", "not_found", 0)]
        ELSE [d |-> d, errs |-> 0,
              resp |-> <<[Resp(200) EXCEPT !.data =
                             <<Public(FirstRow(d.rows, {i \in 1..Len(d.rows) : hit(d.rows[i])}))>>]>>,
              out |-> Out("get", "ok", 0)]

----------------------------------------------------------------------------
(* controllers.genericList                                                 *)

\* A query string: a function from parameter names to values (values[0]).
DefaultQuery(q, key, def) == IF key \in DOMAIN q THEN q[key] ELSE def

MaxPageSize == 10000

ReservedKeys == {"page", "page_size", "order", "search"}

\* the spelling of the names ExistsIn compares the order parameter with
Chars == [id |-> <<"i", "d">>, username |-> <<"u", "s", "e", "r", "n", "a", "m", "e">>,
          email |-> <<"e", "m", "a", "i", "l">>,
          password |-> <<"p", "a", "s", "s", "w", "o", "r", "d">>]

\* strings.HasSuffix(key, "_contains") and strings.TrimSuffix on the
\* parameter names the model sends
TrimContains == [username_contains |-> "username", email_contains |-> "email",
                 password_contains |-> "password"]

HasSuffixContains(key) == key \in DOMAIN TrimContains

\* generic.go:114-139: the columns of the string fields, password left out
SearchColumns ==
    LET str(f) == f.kind = "string" /\ f.column # "password"
        fs == SelectSeq(UserFields, str)
    IN  [i \in 1..Len(fs) |-> fs[i].column]

\* generic.go:150-168: the parameters that become a WHERE condition
FilterKeys(q) == {key \in DOMAIN q \ ReservedKeys : ExistsIn(allowedQueryFields, key)}

FilterHit(q, key, row) ==
    IF HasSuffixContains(key) THEN Like(row[TrimContains[key]], q[key])
    ELSE row[key] = q[key]

SearchOn(q) == DefaultQuery(q, "search", <<>>) # <<>> /\ Len(SearchColumns) > 0

SearchHit(q, row) == \E i \in 1..Len(SearchColumns) : Like(row[SearchColumns[i]], q["search"])

\* the rows the built query selects: gorm adds deleted_at = 0
QueryHit(q, row) ==
    /\ row.deleted_at = 0
    /\ SearchOn(q) => SearchHit(q, row)
    /\ \A key \in FilterKeys(q) : FilterHit(q, key, row)

\* UseCounter with a search that leaves useCounter set
UseCounterDespiteSearch(q) == FilterKeys(q) = {}

UseCounter(q) == ~SearchOn(q) /\ FilterKeys(q) = {}

\* strings.ReplaceAll(s, "-", "")
RemoveDashes(s) == SelectSeq(s, LAMBDA c : c # "-")

\* generic.go:171-190: the ORDER BY text; on = FALSE leaves the query unordered
OrderClause(q) ==
    LET orderParam == DefaultQuery(q, "order", <<"-", "i", "d">>)
        allowed == orderParam # <<>> /\
                   \E i \in 1..Len(allowedOrderFields) :
                       Chars[allowedOrderFields[i]] = RemoveDashes(orderParam)
    IN  IF ~allowed THEN [on |-> FALSE, field |-> <<>>, desc |-> FALSE]
        ELSE IF orderParam[1] = "-"
        THEN [on |-> TRUE, field |-> Tail(orderParam), desc |-> TRUE]
        ELSE [on |-> TRUE, field |-> orderParam, desc |-> FALSE]

\* How the store reads the ORDER BY text: a column name sorts by the column,
\* "-" before a column name by its negation; any other text is an SQL error.
OrderKey(o) ==
    IF ~o.on THEN [err |-> FALSE, sign |-> 0]
    ELSE IF o.field = Chars["id"] THEN [err |-> FALSE, sign |-> IF o.desc THEN 0 - 1 ELSE 1]
    ELSE IF o.field = <<"-">> \o Chars["id"] THEN [err |-> FALSE, sign |-> IF o.desc THEN 1 ELSE 0 - 1]
    ELSE [err |-> TRUE, sign |-> 0]

\* SortById with updated_at as the sort key
RECURSIVE SortByUpdatedAt(_, _)
SortByUpdatedAt(rs, sign) ==
    IF sign = 0 \/ rs = <<>> THEN rs
    ELSE LET i == CHOOSE i \in 1..Len(rs) :
                      \A j \in 1..Len(rs) : sign * rs[i].updated_at <= sign * rs[j].updated_at
         IN  <<rs[i]>> \o SortByUpdatedAt(SubSeq(rs, 1, i - 1) \o SubSeq(rs, i + 1, Len(rs)), sign)

\* rs ordered by sign * id (sign 0: the order of the table)
RECURSIVE SortById(_, _)
SortById(rs, sign) ==
    IF sign = 0 \/ rs = <<>> THEN rs
    ELSE LET i == CHOOSE i \in 1..Len(rs) : \A j \in 1..Len(rs) : sign * rs[i].id <= sign * rs[j].id
         IN  <<rs[i]>> \o SortById(SubSeq(rs, 1, i - 1) \o SubSeq(rs, i + 1, Len(rs)), sign)

\* query.Offset(offset).Limit(limit): an offset below 1 is none, a negative
\* limit is none
Page(rs, offset, limit) ==
    LET from == IF offset > 0 THEN offset ELSE 0
        upto == IF limit < 0 THEN Len(rs) ELSE Min(Len(rs), from + limit)
    IN  SubSeq(rs, from + 1, upto)

\* SELECT (counter) FROM counters WHERE name = ? scanned into total, which
\* stays 0 when no row comes back
CounterRead(d) == IF TableName \in DOMAIN d.counters THEN d.counters[TableName] ELSE 0

\* ListTotal with a direct count in every case
ListTotalCounting(d, q, readErr) ==
    [total |-> Len(SelectSeq(d.rows, LAMBDA row : QueryHit(q, row))),
     src |-> IF UseCounter(q) THEN "counter" ELSE "direct"]

\* generic.go:192-201; readErr: the counter query returned an error
ListTotal(d, q, readErr) ==
    LET direct == Len(SelectSeq(d.rows, LAMBDA row : QueryHit(q, row)))
    IN  IF UseCounter(q)
        THEN IF readErr THEN [total |-> direct, src |-> "fallback"]
             ELSE [total |-> CounterRead(d), src |-> "counter"]
        ELSE [total |-> direct, src |-> "direct"]

\* generic.go:64-218; fault: the paged query returned an error
ListResult(d, q, readErr, fault) ==
    LET page == Atoi(DefaultQuery(q, "page", <<"1">>)).n
        pageSize == Min(Atoi(DefaultQuery(q, "page_size", <<"1", "0">>)).n, MaxPageSize)
        offset == (page - 1) * pageSize
        key == OrderKey(OrderClause(q))
        hits == SelectSeq(d.rows, LAMBDA row : QueryHit(q, row))
        found == Page(SortById(hits, key.sign), offset, pageSize)
        tot == ListTotal(d, q, readErr)
    IN  IF fault = 1 \/ key.err
        THEN [d |-> d, errs |-> 0, resp |-> <<Resp(404)>>,
              out |-> [Out("list", "query", 1) EXCEPT !.src = tot.src]]
        ELSE [d |-> d, errs |-> 0,
              resp |-> <<[code |-> 200, total |-> tot.total, page |-> page, size |-> pageSize,
                          data |-> [i \in 1..Len(found) |-> Public(found[i])]]>>,
              out |-> [Out("list", "ok", 0) EXCEPT !.src = tot.src]]

----------------------------------------------------------------------------
(* Request inputs                                                          *)

NameVals == {<<"a">>, <<"b">>}

EmailVals == {<<"x">>}

DeletedVals == {JNum(1), JNum(0 - 1)}

SeqsUpTo(S, n) == UNION {[1..k -> S] : k \in 0..n}

CreateRecs ==
    {("username" :> JStr(u)) @@ ("email" :> JStr(e)) : u \in NameVals, e \in EmailVals}
    \cup {("username" :> JStr(u)) : u \in NameVals}
    \cup {("username" :> JStr(u)) @@ ("deletedat" :> v) : u \in NameVals, v \in DeletedVals}

CreateBodies ==
    {Body(JSONType, "object", <<Elem(rec)>>) : rec \in CreateRecs}
    \cup {Body(JSONType, "array", [i \in 1..Len(rs) |-> Elem(rs[i])]) :
             rs \in SeqsUpTo(CreateRecs, MaxBatch)}
    \cup {Body(JSONType, "array", <<NonObject>>), Body(JSONType, "malformed", <<>>),
          Body("text/plain", "raw", <<>>)}
    \cup {Body(FormType, "form", <<Elem(rec)>>) : rec \in {("username" :> JStr(u)) : u \in NameVals}}

\* keys no ctags tag marks as updatable
ForeignKeys == {("id" :> JNum(MaxRows + 1)), ("deleted_at" :> JNum(1)), ("updated_at" :> JNum(0))}

UpdateRecs ==
    {("username" :> JStr(u)) : u \in NameVals}
    \cup ForeignKeys
    \cup {("username" :> JStr(u)) @@ f : u \in NameVals, f \in ForeignKeys}

PathIds == {Itoa(i) : i \in 1..MaxRows}

UpdateBodies ==
    {Body(JSONType, "object", <<Elem(rec)>>) : rec \in UpdateRecs}
    \cup {Body(JSONType, "malformed", <<>>), Body(JSONType, "array", <<>>)}

BatchObjs ==
    {("id" :> JNum(i)) @@ rec : i \in 1..MaxRows,
        rec \in {("username" :> JStr(u)) : u \in NameVals} \cup {("deleted_at" :> JNum(1))}}
    \cup {("username" :> JStr(u)) : u \in NameVals}

BatchBodies ==
    {Body(JSONType, "objs", [i \in 1..Len(os) |-> Elem(os[i])]) : os \in SeqsUpTo(BatchObjs, MaxBatch)}
    \cup {Body(JSONType, "malformed", <<>>), Body(FormType, "malformed", <<>>)}

RawPaths == {Tautology, <<"x">>}

IdSeqs == SeqsUpTo(1..MaxRows, MaxBatch) \ {<<>>}

DelReqs ==
    {DelReq(JSONType, Ids("ids", ids), <<>>, Ids("noids", <<>>)) : ids \in IdSeqs}
    \cup {DelReq(JSONType, Ids(sh, <<>>), <<>>, Ids("noids", <<>>)) :
             sh \in {"noids", "malformed", "notarray", "badelem"}}
    \cup {DelReq("", Ids("noids", <<>>), q, Ids("noids", <<>>)) :
             q \in {<<Itoa(1)>>, <<Itoa(1), <<"x">>>>}}
    \cup {DelReq(FormType, Ids("noids", <<>>), <<>>, Ids(sh, <<1>>)) :
             sh \in {"ids", "noids", "badjson"}}
    \cup {DelReq(JSONType, Ids("noids", <<>>), <<Itoa(1)>>, Ids("noids", <<>>)),
          DelReq(FormType, Ids("noids", <<>>), <<Itoa(1)>>, Ids("ids", <<2>>))}

\* the parameters of a list request, each one present or absent
Optional(key, vals) == {NoKeys} \cup {(key :> v) : v \in vals}

FilterQueries ==
    {s @@ u @@ c @@ o @@ p : s \in Optional("search", {<<"a">>, <<"_">>}),
                             u \in Optional("username", NameVals),
                             c \in Optional("username_contains", {<<"a">>}),
                             o \in Optional("order", {<<"i", "d">>, <<"i", "-", "d">>}),
                             p \in Optional("page_size", {<<"1">>})}

\* the page and page_size parameters: numbers below, at and above 1, a number
\* above MaxPageSize and text that is no number
PageVals == {<<"0">>, <<"2">>, <<"-", "1">>, <<"x">>}

SizeVals == {<<"1">>, <<"0">>, <<"-", "1">>, <<"x">>, <<"2", "0", "0", "0", "0">>}

PageQueries ==
    {("page" :> p) : p \in PageVals}
    \cup {("page_size" :> z) : z \in SizeVals}
    \cup {("page" :> <<"2">>) @@ ("page_size" :> <<"1">>)}

ListQueries == FilterQueries \cup PageQueries

genericCreate(r) ==
    \E body \in CreateBodies, fault \in 0..MaxBatch, t \in Times(View(r)) :
        /\ Len(View(r).rows) + Len(body.items) <= MaxRows
        /\ Handled(r, CreateResult(dbType, View(r), body, fault, t))

genericUpdate(r) ==
    \/ \E pathId \in PathIds, body \in UpdateBodies, fault \in 0..1, t \in Times(View(r)) :
           Handled(r, UpdateResult(View(r), pathId, body, fault, t))
    \/ \E body \in BatchBodies, fault \in 0..MaxBatch, t \in Times(View(r)) :
           Handled(r, UpdateResult(View(r), <<>>, body, fault, t))

genericDelete(r) ==
    \E id \in PathIds \cup RawPaths, fault \in 0..1, t \in Times(View(r)) :
        Handled(r, DeleteResult(View(r), id, fault, t))

genericBatchDelete(r) ==
    \E in \in DelReqs, fault \in 0..1, t \in Times(View(r)) :
        IF BatchIds(in).st = "panic"
        THEN Panicked(r, "batch_delete", BatchIds(in).pv)
        ELSE Handled(r, BatchDeleteResult(View(r), in, fault, t))

genericRetrieve(r) ==
    \E id \in PathIds \cup RawPaths, fault \in 0..1 :
        /\ req[r].tx = "open"
        /\ Handled(r, RetrieveResult(View(r), id, fault))

genericList(r) ==
    \E q \in ListQueries, readErr \in BOOLEAN, fault \in 0..1 :
        /\ req[r].tx = "open"
        /\ Handled(r, ListResult(View(r), q, readErr, fault))

----------------------------------------------------------------------------
(* utils.CreateCounter4Table, called by main for each model                *)

\* What the database holds of the counter machinery: whether the counters
\* table exists, its rows (table name to counter) and the tables whose three
\* triggers are installed.
Catalog(exists, ctr, trig) == [exists |-> exists, ctr |-> ctr, trig |-> trig]

NoRows == [k \in {} |-> 0]

\* a database that never saw the program
FreshCatalog == Catalog(FALSE, NoRows, {})

\* create<Backend>Triggers: DELETE and INSERT of the table's counters row with
\* the count n of its rows with deleted_at = 0, then the three triggers
createTriggers(s, tableName, n) ==
    Catalog(s.exists,
            [k \in DOMAIN s.ctr \cup {tableName} |-> IF k = tableName THEN n ELSE s.ctr[k]],
            s.trig \cup {tableName})

\* database.go:405-424: CREATE TABLE counters fails when the table is there,
\* and only its success leads to the triggers
CreateCounter4Table(s, tableName, n) ==
    IF s.exists THEN s
    ELSE createTriggers(Catalog(TRUE, s.ctr, s.trig), tableName, n)

\* main.go:34-47: the loop over the models from model i on; count gives each
\* table's number of non-deleted rows
RECURSIVE RegisterAll(_, _, _, _)
RegisterAll(s, tables, count, i) ==
    IF i > Len(tables) THEN s
    ELSE RegisterAll(CreateCounter4Table(s, tables[i], count[tables[i]]), tables, count, i + 1)

----------------------------------------------------------------------------
(* A restore written to the store directly, in a transaction of its own    *)

Restore ==
    \E id \in 1..MaxRows :
        LET res == RestoreRow(DB(rows, counters), id)
        IN  /\ lock = 0
            /\ ~res.err
            /\ res.n > 0
            /\ rows' = res.d.rows
            /\ counters' = res.d.counters
            /\ txRows' = res.d.rows
            /\ txCounters' = res.d.counters
            /\ UNCHANGED <<dbType, lock, req>>

----------------------------------------------------------------------------
(* The system: main.go has created the counter and its triggers for the one *)
(* registered table on an empty database                                    *)

Init ==
    /\ dbType = "sqlite"
    /\ rows = <<>>
    /\ counters = (TableName :> 0)
    /\ lock = 0
    /\ txRows = <<>>
    /\ txCounters = (TableName :> 0)
    /\ req = [r \in Reqs |-> IdleReq]

Next ==
    \/ \E r \in Reqs : Begin(r)
    \/ \E r \in Reqs : genericList(r)
    \/ \E r \in Reqs : genericCreate(r)
    \/ \E r \in Reqs : genericUpdate(r)
    \/ \E r \in Reqs : genericDelete(r)
    \/ \E r \in Reqs : genericBatchDelete(r)
    \/ \E r \in Reqs : genericRetrieve(r)
    \/ \E r \in Reqs, commitFails \in BOOLEAN : Finish(r, commitFails)
    \/ \E r \in Reqs : Recover(r)
    \/ Restore

Spec == Init /\ [][Next]_vars

\* Concurrent requests that list, insert or soft-delete rows of users, each
\* in the transaction the middleware gives it

ConcInit ==
    /\ dbType = "sqlite"
    /\ rows = <<>>
    /\ counters = (TableName :> 0)
    /\ lock = 0
    /\ txRows = <<>>
    /\ txCounters = (TableName :> 0)
    /\ req = [r \in ConcReqs |-> IdleReq]

\* POST /users with one JSON object
ConcBodies ==
    {Body(JSONType, "object", <<Elem(rec)>>) :
        rec \in {("username" :> JStr(u)) : u \in NameVals}
                 \cup {("username" :> JStr(<<"a">>)) @@ ("deletedat" :> JNum(1))}}

insertRow(r) ==
    \E body \in ConcBodies, fault \in 0..1, t \in Times(View(r)) :
        /\ Len(View(r).rows) + Len(body.items) <= MaxRows
        /\ Handled(r, CreateResult(dbType, View(r), body, fault, t))

\* DELETE /users/{id}
softDeleteRow(r) ==
    \E id \in PathIds, fault \in 0..1, t \in Times(View(r)) :
        /\ req[r].tx = "open"
        /\ Handled(r, DeleteResult(View(r), id, fault, t))

\* DELETE /users with the JSON body {"ids": [1, .., MaxRows]}
softDeleteRows(r) ==
    \E t \in Times(View(r)) :
        /\ req[r].tx = "open"
        /\ Handled(r, BatchDeleteResult(View(r),
                          DelReq(JSONType, Ids("ids", [i \in 1..MaxRows |-> i]), <<>>,
                                 Ids("noids", <<>>)), 0, t))

\* GET /users with no parameter
listRows(r) ==
    /\ req[r].tx = "open"
    /\ Handled(r, ListResult(View(r), NoKeys, FALSE, 0))

ConcNext ==
    \/ \E r \in ConcReqs : Begin(r)
    \/ \E r \in ConcReqs : listRows(r)
    \/ \E r \in ConcReqs : insertRow(r)
    \/ \E r \in ConcReqs : softDeleteRow(r)
    \/ \E r \in ConcReqs : softDeleteRows(r)
    \/ \E r \in ConcReqs, commitFails \in BOOLEAN : Finish(r, commitFails)

ConcSpec == ConcInit /\ [][ConcNext]_vars

----------------------------------------------------------------------------
(* Properties of middlewares.TransactionMiddleware                         *)

\* no transaction is in flight
Quiescent == \A r \in Reqs : req[r].pc \in {"idle", "done"}

\* the step with which request r's middleware returns
Ends(r) == req[r].pc \in {"handled", "panicked"} /\ req'[r].pc = "done"

\* C1 as stated: every request that went through the middleware had exactly
\* one of Commit and Rollback called on its transaction handle, on every path,
\* the path on which Commit itself fails included.
C1_ExactlyOneCall ==
    \A r \in Reqs : req[r].pc = "done" => Len(req[r].txlog) = 1

\* C1, amended: a finished request had at least one and at most two calls made
\* on its transaction handle: Commit alone, Rollback alone, or (exactly when
\* Commit returned an error) Commit followed by one Rollback.  The transaction
\* is committed only by a Commit alone and no call follows a successful Commit.
C1_CommitOrRollback ==
    \A r \in Reqs : req[r].pc = "done" =>
        /\ req[r].txlog \in {<<"Commit">>, <<"Rollback">>, <<"Commit", "Rollback">>}
        /\ req[r].commitErr <=> req[r].txlog = <<"Commit", "Rollback">>
        /\ req[r].tx = "committed" <=> req[r].txlog = <<"Commit">>
        /\ req[r].tx = "rolledback" <=> req[r].txlog[Len(req[r].txlog)] = "Rollback"

C1_CommitFailed ==
    \E r \in Reqs : /\ req[r].pc = "done"
                    /\ req[r].commitErr
                    /\ req[r].txlog = <<"Commit", "Rollback">>

\* C5: when the handler returns normally the transaction is rolled back if and
\* only if the handler recorded an error on the context or Commit returned an
\* error; with no error recorded Commit is attempted first and Rollback is
\* called only after a Commit that failed; with an error recorded Commit is
\* not attempted.
C5_RollbackIffErrorOrCommitFailed ==
    \A r \in Reqs : (req[r].pc = "done" /\ req[r].panic = "none") =>
        /\ req[r].tx = "rolledback" <=> (req[r].errs > 0 \/ req[r].commitErr)
        /\ "Rollback" \in Range(req[r].txlog) <=> (req[r].errs > 0 \/ req[r].commitErr)
        /\ "Commit" \in Range(req[r].txlog) <=> req[r].errs = 0
        /\ req[r].errs = 0 => req[r].txlog[1] = "Commit"

C5_ErrorRolledBack ==
    \E r \in Reqs : /\ req[r].pc = "done"
                    /\ req[r].panic = "none"
                    /\ req[r].errs > 0
                    /\ req[r].txlog = <<"Rollback">>
                    /\ req[r].out.why = "store"

\* C6: when the handler panics the middleware rolls the transaction back,
\* never calls Commit, and panics again with the value it recovered; it
\* raises nothing when the handler did not panic.
C6_PanicRollsBackAndReraises ==
    \A r \in Reqs :
        /\ req[r].pc = "panicked" => (req[r].panic # "none" /\ req[r].txlog = <<>>)
        /\ (req[r].pc = "done" /\ req[r].panic # "none") =>
               /\ req[r].txlog = <<"Rollback">>
               /\ req[r].tx = "rolledback"
               /\ req[r].raised = req[r].panic
        /\ req[r].panic = "none" => req[r].raised = "none"

C6_PanicRecovered ==
    \E r \in Reqs : /\ req[r].pc = "done"
                    /\ req[r].panic = "not float64"
                    /\ req[r].raised = "not float64"

----------------------------------------------------------------------------
(* Properties of the batch handlers                                        *)

\* C2: when binding or the insert of record k of a create fails, the handler
\* has recorded an error and answered 400, its transaction holds the inserts
\* of records 1..k-1 and of no later record, and the middleware's return
\* rolls back: the committed rows and counters are as before the request.
C2_FailedCreateCommitsNothing ==
    [][\A r \in Reqs :
          (req[r].pc = "handled" /\ req[r].out.op = "create" /\ req[r].out.k > 0) =>
              /\ req[r].errs > 0
              /\ req[r].resp[Len(req[r].resp)].code = 400
              /\ Len(View(r).rows) = Len(rows) + req[r].out.k - 1
              /\ Ends(r) => /\ req'[r].tx = "rolledback"
                            /\ rows' = rows
                            /\ counters' = counters]_vars

C2_SecondRecordFailed ==
    \E r \in Reqs : /\ req[r].pc = "done"
                    /\ req[r].out.op = "create"
                    /\ req[r].out.k = 2
                    /\ req[r].tx = "rolledback"

\* C3 as stated: once no transaction is in flight, the counter of the users
\* table equals the number of its rows whose deleted_at is 0.
C3_CounterIsActiveCount ==
    Quiescent => counters[TableName] = ActiveCount(rows)

\* C4: when an object of a batch update fails (no id, no updatable key, or
\* the store refuses the update), the handler has recorded an error and
\* answered 400, and the middleware's return rolls back: no object's update
\* is committed, the committed rows and counters are as before the request.
C4_FailedBatchUpdateCommitsNothing ==
    [][\A r \in Reqs :
          (req[r].pc = "handled" /\ req[r].out.op = "batch_update" /\ req[r].out.k > 0) =>
              /\ req[r].errs > 0
              /\ req[r].resp = <<Resp(400)>>
              /\ Ends(r) => /\ req'[r].tx = "rolledback"
                            /\ rows' = rows
                            /\ counters' = counters]_vars

\* a batch update that failed at its second object after the first object's
\* update had changed a row in the transaction
C4_SecondObjectFailed ==
    \E r \in Reqs : /\ req[r].pc = "handled"
                    /\ req[r].out.op = "batch_update"
                    /\ req[r].out.k = 2
                    /\ lock = r
                    /\ \E i \in 1..Len(rows) : txRows[i].username # rows[i].username

----------------------------------------------------------------------------
(* Properties of controllers.genericUpdate                                 *)

\* C7: an update whose payload has an object with no key naming an updatable
\* field is answered 400 and never 200, and the return of the middleware
\* leaves the committed rows and counters as they were before the request.
C7_NoUpdatableKeyRejected ==
    [][\A r \in Reqs :
          (/\ req[r].pc = "handled"
           /\ req[r].out.op \in {"update", "batch_update"}
           /\ req[r].out.bare) =>
              /\ req[r].resp = <<Resp(400)>>
              /\ req[r].out.why # "ok"
              /\ Ends(r) => (rows' = rows /\ counters' = counters)]_vars

\* a batch update whose first object was applied in the transaction and whose
\* second object has no updatable key, rolled back
C7_BareObjectRolledBack ==
    \E r \in Reqs : /\ req[r].pc = "done"
                    /\ req[r].out.op = "batch_update"
                    /\ req[r].out.bare
                    /\ req[r].out.why = "no_fields"
                    /\ req[r].out.k = 2
                    /\ req[r].tx = "rolledback"

\* the body of a single update, and of a batch update of one object, with the
\* keys of rec
ObjectBody(rec) == Body(JSONType, "object", <<Elem(rec)>>)

ObjsBody(rec) == Body(JSONType, "objs", <<Elem(rec)>>)

\* payloads with an updatable key and another key: for the single update of
\* the row the path names, and for a batch update of one object; route is the
\* path id (empty on the batch route)
MixedUpdates ==
    {[route |-> Itoa(i), id |-> i, rec |-> rec, body |-> ObjectBody(rec)] :
        i \in 1..MaxRows, rec \in {x \in UpdateRecs : Updatable(x) # {} /\ NotUpdatable(x) # {}}}
    \cup {[route |-> <<>>, id |-> obj["id"].n, rec |-> obj, body |-> ObjsBody(obj)] :
        obj \in {x \in BatchObjs : Has(x, "id") /\ Updatable(x) # {}}}

\* the rows of rs an update of id reaches
Target(rs, id) == {i \in 1..Len(rs) : rs[i].id = id /\ rs[i].deleted_at = 0}

\* a row other than the target holds, not deleted, the value the payload
\* gives a column with a unique index
Taken(rs, id, rec) ==
    \E i \in Target(rs, id), j \in 1..Len(rs), key \in Updatable(rec) \cap {"username", "email"} :
        /\ j # i
        /\ rs[j].deleted_at = 0
        /\ rs[j][key] = rec[key].s

\* after is before with the updatable keys of rec written to the target row,
\* the columns in kept of the target row as they were, and every other row as
\* it was
Written(before, after, id, rec, kept) ==
    /\ Len(after) = Len(before)
    /\ \A i \in 1..Len(before) :
          IF i \in Target(before, id)
          THEN /\ \A key \in Updatable(rec) : after[i][key] = rec[key].s
               /\ \A key \in kept : after[i][key] = before[i][key]
          ELSE after[i] = before[i]

\* the columns of users
Columns == {"id", "username", "email", "password", "deleted_at", "updated_at"}

\* C8 as stated: an update whose payload mixes updatable and other keys
\* succeeds; each updatable key's column takes the payload value; no column
\* a non-updatable key names, id and deleted_at included, and no other row is
\* modified.
C8_MixedUpdateSucceeds ==
    \A r \in Reqs : req[r].pc = "open" =>
        \A u \in MixedUpdates, t \in Times(View(r)) :
            LET res == UpdateResult(View(r), u.route, u.body, 0, t)
            IN  /\ res.resp = <<Resp(200)>>
                /\ Written(View(r).rows, res.d.rows, u.id, u.rec,
                           NotUpdatable(u.rec) \cup {"id", "deleted_at"})

\* C8, amended: such an update is answered 400, with an error recorded and
\* nothing written, when another row that is not deleted holds the username
\* or email the payload gives; otherwise it succeeds, each updatable key's
\* column of the target row takes the payload value, and nothing else changes
\* in the table (id, deleted_at and every other row included) but updated_at
\* of the target row, which is set to the time of the update.
C8_MixedUpdateWritesUpdatableOnly ==
    \A r \in Reqs : req[r].pc = "open" =>
        \A u \in MixedUpdates, t \in Times(View(r)) :
            LET d == View(r)
                res == UpdateResult(d, u.route, u.body, 0, t)
            IN  IF Taken(d.rows, u.id, u.rec)
                THEN res.resp = <<Resp(400)>> /\ res.errs = 1 /\ res.d = d
                ELSE /\ res.resp = <<Resp(200)>>
                     /\ res.errs = 0
                     /\ Written(d.rows, res.d.rows, u.id, u.rec,
                                Columns \ (Updatable(u.rec) \cup {"updated_at"}))
                     /\ \A i \in Target(d.rows, u.id) : res.d.rows[i].updated_at = t
                     /\ res.d.counters = d.counters

\* a committed single update whose payload was mixed and whose row took the
\* payload's username
C8_MixedUpdateCommitted ==
    \E r \in Reqs : /\ req[r].pc = "done"
                    /\ req[r].out.op = "update"
                    /\ req[r].out.mixed
                    /\ req[r].out.why = "ok"
                    /\ req[r].tx = "committed"
                    /\ \E i \in 1..Len(rows) : rows[i].username = <<"b">> /\ rows[i].updated_at = MaxTime

----------------------------------------------------------------------------
(* Properties of controllers.genericList                                   *)

\* the list queries with no parameter that names a queryable field and no
\* search text, and the others
Unfiltered(q) ==
    /\ DOMAIN q \cap Range(allowedQueryFields) = {}
    /\ ("search" \in DOMAIN q => q["search"] = <<>>)

\* the rows of rs that are not deleted and match the search text and every
\* field parameter of q
Matching(rs, q) ==
    {i \in 1..Len(rs) :
        /\ rs[i].deleted_at = 0
        /\ \A key \in DOMAIN q \cap Range(allowedQueryFields) : rs[i][key] = q[key]
        /\ ("search" \in DOMAIN q /\ q["search"] # <<>>) =>
               (Like(rs[i].username, q["search"]) \/ Like(rs[i].email, q["search"]))}

\* C9: a list with no filter parameter and no search text reports as total
\* the value of the users row of counters, and the direct count of the rows
\* that are not deleted only when reading the counter returned an error.
C9_UnfilteredTotalIsCounter ==
    \A r \in Reqs : req[r].pc = "open" =>
        \A q \in ListQueries, readErr \in BOOLEAN :
            Unfiltered(q) =>
                LET d == View(r)
                    res == ListResult(d, q, readErr, 0)
                IN  /\ res.out.src = (IF readErr THEN "fallback" ELSE "counter")
                    /\ res.resp[1].code = 200 =>
                           res.resp[1].total = (IF readErr THEN ActiveCount(d.rows)
                                                ELSE d.counters[TableName])

\* an unfiltered list answered with the counter while the counter differs
\* from the number of rows that are not deleted
C9_CounterReported ==
    \E r \in Reqs : /\ req[r].pc = "handled"
                    /\ req[r].out.op = "list"
                    /\ req[r].out.src = "counter"
                    /\ req[r].resp[1].code = 200
                    /\ req[r].resp[1].total = counters[TableName]
                    /\ counters[TableName] # ActiveCount(rows)

\* C10: a list with a field filter or a search text applied reports as total
\* the number of rows that are not deleted and match every applied predicate,
\* whatever the counter holds and whether or not it could be read.
C10_FilteredTotalIsDirectCount ==
    \A r \in Reqs : req[r].pc = "open" =>
        \A q \in ListQueries, readErr \in BOOLEAN :
            ~Unfiltered(q) =>
                LET d == View(r)
                    res == ListResult(d, q, readErr, 0)
                IN  /\ res.out.src = "direct"
                    /\ res.resp[1].code = 200 =>
                           res.resp[1].total = Cardinality(Matching(d.rows, q))

\* a filtered list whose total is below the counter
C10_DirectCountReported ==
    \E r \in Reqs : /\ req[r].pc = "handled"
                    /\ req[r].out.op = "list"
                    /\ req[r].out.src = "direct"
                    /\ req[r].resp[1].code = 200
                    /\ req[r].resp[1].total < counters[TableName]
                    /\ req[r].resp[1].total > 0

\* the field an order parameter names: the parameter after one optional
\* leading "-"
OrderName(o) == IF o # <<>> /\ o[1] = "-" THEN Tail(o) ELSE o

\* the spellings of the orderable fields
Orderable == {Chars[allowedOrderFields[i]] : i \in 1..Len(allowedOrderFields)}

\* C11 as stated: the field of the ORDER clause a list applies is an orderable
\* field, and an order parameter whose field (after one optional leading "-")
\* is not orderable applies no ORDER clause at all.
C11_OrderFieldIsOrderable ==
    \A r \in Reqs : req[r].pc = "open" =>
        \A q \in ListQueries :
            LET o == OrderClause(q)
            IN  /\ o.on => o.field \in Orderable
                /\ OrderName(DefaultQuery(q, "order", <<"-", "i", "d">>)) \notin Orderable => ~o.on

\* the identifiers a list response carries
DataIds(resp) == {resp.data[i].id : i \in 1..Len(resp.data)}

\* the rows of rs, by index, that are not deleted and satisfy f = value for
\* every parameter f and f LIKE %value% for every parameter f_contains of q
\* whose field f is queryable
Filtered(rs, q) ==
    {i \in 1..Len(rs) :
        /\ rs[i].deleted_at = 0
        /\ \A key \in DOMAIN q \cap Range(allowedQueryFields) : rs[i][key] = q[key]
        /\ \A key \in DOMAIN q \cap DOMAIN TrimContains :
               TrimContains[key] \in Range(allowedQueryFields) =>
                   Like(rs[i][TrimContains[key]], q[key])}

\* C12 as stated: a list with parameters f and f_contains of queryable fields
\* (and no search, order or page size) is answered with exactly the rows that
\* are not deleted and satisfy every such predicate.
C12_FiltersSelectMatchingRows ==
    \A r \in Reqs : req[r].pc = "open" =>
        \A q \in ListQueries :
            DOMAIN q \cap ReservedKeys = {} =>
                LET d == View(r)
                    res == ListResult(d, q, FALSE, 0)
                IN  /\ res.resp[1].code = 200
                    /\ DataIds(res.resp[1]) = {d.rows[i].id : i \in Filtered(d.rows, q)}

\* the tables that differ from rs only in the columns cols (of deleted_at and
\* updated_at), with values from the timestamps of the model, and that the
\* unique indexes admit
Variants(rs, cols) ==
    LET D == IF "deleted_at" \in cols THEN 0..MaxTime ELSE {0}
        U == IF "updated_at" \in cols THEN 0..MaxTime ELSE {0}
        put(f) == [i \in 1..Len(rs) |->
                      [rs[i] EXCEPT !.deleted_at = IF "deleted_at" \in cols THEN f[i][1] ELSE @,
                                    !.updated_at = IF "updated_at" \in cols THEN f[i][2] ELSE @]]
    IN  {vs \in {put(f) : f \in [1..Len(rs) -> D \X U]} : UniqueOK(vs)}

\* what a client sees of a list response: the status, the total and the
\* identifiers in the order of the data
ListView(res) ==
    [code |-> res.resp[1].code, total |-> res.resp[1].total,
     ids |-> [i \in 1..Len(res.resp[1].data) |-> res.resp[1].data[i].id]]

\* every list request is answered alike on d and on every table that differs
\* from it only in the columns cols
SameLists(d, cols) ==
    \A vs \in Variants(d.rows, cols), q \in ListQueries, readErr \in BOOLEAN :
        ListView(ListResult(d, q, readErr, 0)) =
            ListView(ListResult(DB(vs, d.counters), q, readErr, 0))

Contains(s, term) == \E k \in 1..(Len(s) - Len(term) + 1) : SubSeq(s, k, k + Len(term) - 1) = term

\* the columns of the string-kind fields of models.User other than password
StringColumns ==
    {UserFields[i].column : i \in {j \in 1..Len(UserFields) : UserFields[j].kind = "string"}}
        \ {"password"}

\* C14 as stated: a list with a non-empty search term (and no other
\* parameter) is answered with exactly the rows that are not deleted and in
\* which a string column other than password contains the term, and with
\* their number as total.
C14_SearchSelectsRowsContainingTerm ==
    \A r \in Reqs : req[r].pc = "open" =>
        \A q \in ListQueries :
            (DOMAIN q = {"search"} /\ q["search"] # <<>>) =>
                LET d == View(r)
                    res == ListResult(d, q, FALSE, 0)
                    hits == {i \in 1..Len(d.rows) :
                                /\ d.rows[i].deleted_at = 0
                                /\ \E c \in StringColumns : Contains(d.rows[i][c], q["search"])}
                IN  /\ res.resp[1].code = 200
                    /\ DataIds(res.resp[1]) = {d.rows[i].id : i \in hits}
                    /\ res.resp[1].total = Cardinality(hits)

\* the response to list query q asked for page k
PageOf(d, q, k) == ListResult(d, ("page" :> Itoa(k)) @@ q, FALSE, 0).resp[1]

\* the identifiers of pages k..n of q, one page after the other
RECURSIVE PagesFrom(_, _, _, _)
PagesFrom(d, q, k, n) ==
    IF k > n THEN <<>>
    ELSE LET data == PageOf(d, q, k).data
         IN  [i \in 1..Len(data) |-> data[i].id] \o PagesFrom(d, q, k + 1, n)

\* ids is in the order q asks for: ascending for order=id, descending when
\* the parameter is absent
InOrder(ids, q) ==
    \A i, j \in 1..Len(ids) :
        i < j => IF "order" \in DOMAIN q THEN ids[i] < ids[j] ELSE ids[i] > ids[j]

\* C15 as stated: for a page size p >= 1 and a fixed store, pages 1 to
\* ceil(total/p) of a list, one after the other, hold exactly total
\* identifiers, none twice, those of all the rows the query selects, in the
\* order asked for (identifier descending by default).
C15_PagesPartitionTheList ==
    \A r \in Reqs : req[r].pc = "open" =>
        \A q \in FilterQueries :
            LET d == View(r)
                first == PageOf(d, q, 1)
                p == first.size
                ids == PagesFrom(d, q, 1, (first.total + p - 1) \div p)
            IN  first.code = 200 =>
                    /\ Len(ids) = first.total
                    /\ Cardinality(Range(ids)) = Len(ids)
                    /\ Range(ids) = {d.rows[i].id : i \in {j \in 1..Len(d.rows) : QueryHit(q, d.rows[j])}}
                    /\ InOrder(ids, q)

\* C16: for every List request, whatever page and page_size say (absent, zero,
\* negative, non-numeric, huge), the effective page is at least 1, the
\* effective page_size is at most MaxPageSize, and the offset
\* (page - 1) * page_size handed to the store is never negative
C16_PageAndOffsetInRange ==
    \A r \in Reqs : req[r].pc = "open" =>
        \A q \in ListQueries :
            LET res == ListResult(View(r), q, FALSE, 0).resp[1]
            IN  res.code = 200 =>
                    /\ res.page >= 1
                    /\ res.size <= MaxPageSize
                    /\ (res.page - 1) * res.size >= 0

\* the record Get answers for the identifier a Create of rec assigned, read
\* from the store the Create leaves behind once committed
CreatedThenGot(d, rec, t) ==
    LET made == CreateResult(dbType, d, Body(JSONType, "object", <<Elem(rec)>>), 0, t)
        ans == made.resp[Len(made.resp)]
    IN  [made |-> ans,
         got |-> IF ans.code = 201
                 THEN RetrieveResult(made.d, Itoa(ans.data[1].id), 0).resp[1]
                 ELSE Resp(404)]

\* C17: Create(record) followed, after commit, by Get of the identifier
\* assigned to it returns a record whose identifier and whose every Queryable
\* or Updatable field equal the values of the Create payload
C17_CreateThenGetRoundTrip ==
    \A r \in Reqs : (req[r].pc = "open" /\ Len(View(r).rows) < MaxRows) =>
        \A rec \in CreateRecs, t \in Times(View(r)) :
            LET rt == CreatedThenGot(View(r), rec, t)
            IN  rt.made.code = 201 =>
                    /\ rt.got.code = 200
                    /\ rt.got.data[1].id = rt.made.data[1].id
                    /\ \A f \in DOMAIN rec \cap (Range(allowedQueryFields)
                                                  \cup Range(allowedUpdateFields)) :
                           /\ f \in DOMAIN rt.got.data[1]
                           /\ rt.got.data[1][f] = Sprint(rec[f])

\* no row of d with an identifier of ids is live, and one of them is there,
\* soft-deleted
AlreadyDeleted(d, ids) ==
    /\ \E i \in 1..Len(d.rows) : d.rows[i].id \in ids
    /\ \A i \in 1..Len(d.rows) : d.rows[i].id \in ids => d.rows[i].deleted_at # 0

\* res answers 200 "deleted 0" and leaves the store d as it is
DeletedNothing(d, res) ==
    /\ res.resp = <<[Resp(200) EXCEPT !.total = 0]>>
    /\ res.errs = 0
    /\ res.d = d

\* C18: Delete is idempotent: applied to an identifier whose row is already
\* soft-deleted, or a second time to the same ids after a first delete that
\* succeeded, it affects 0 rows, changes no row and no counter, and answers
\* 200 "deleted 0"
C18_DeleteIsIdempotent ==
    \A r \in Reqs : req[r].pc = "open" =>
        \A t \in Times(View(r)) :
            LET d == View(r)
            IN  /\ \A id \in PathIds :
                       LET once == DeleteResult(d, id, 0, t)
                       IN  /\ AlreadyDeleted(d, {Atoi(id).n}) => DeletedNothing(d, once)
                           /\ once.resp[1].code = 200 =>
                                  \A u \in Times(once.d) :
                                      DeletedNothing(once.d, DeleteResult(once.d, id, 0, u))
                /\ \A in \in DelReqs :
                       LET b == BatchIds(in)
                           once == BatchDeleteResult(d, in, 0, t)
                       IN  (b.st = "ok" /\ b.ids # <<>>) =>
                               /\ AlreadyDeleted(d, Range(b.ids)) => DeletedNothing(d, once)
                               /\ once.resp[1].code = 200 =>
                                      \A u \in Times(once.d) :
                                          DeletedNothing(once.d, BatchDeleteResult(once.d, in, 0, u))

\* a delete answered "deleted 0" while every one of MaxRows rows is
\* soft-deleted
C18_DeletedTwice ==
    \E r \in Reqs :
        /\ req[r].pc = "handled"
        /\ req[r].out.op \in {"delete", "batch_delete"}
        /\ req[r].resp = <<[Resp(200) EXCEPT !.total = 0]>>
        /\ Len(View(r).rows) = MaxRows
        /\ \A i \in 1..Len(View(r).rows) : View(r).rows[i].deleted_at # 0

\* d holds a row that is not soft-deleted and whose identifier is written id
LiveRow(d, id) ==
    \E i \in 1..Len(d.rows) : Itoa(d.rows[i].id) = id /\ d.rows[i].deleted_at = 0

\* C19: Get(id) returns the item if and only if a row with that identifier
\* exists and is not soft-deleted in the request's view; for an identifier
\* never created and for one whose row is soft-deleted it answers 404
C19_GetReturnsLiveRowOrNotFound ==
    \A r \in Reqs : req[r].pc = "open" =>
        \A id \in PathIds \cup RawPaths :
            LET res == RetrieveResult(View(r), id, 0).resp[1]
            IN  IF LiveRow(View(r), id)
                THEN res.code = 200 /\ Itoa(res.data[1].id) = id
                ELSE res.code = 404

\* the id lists a batch delete request carries, in the order JSON body,
\* query parameter, form body
Sources(in) ==
    << IF in.json.shape = "ids" THEN in.json.ids ELSE <<>>,
       AtoiAll(in.query),
       IF in.form.shape = "ids" THEN in.form.ids ELSE <<>> >>

FirstNonEmpty(srcs) ==
    IF \A i \in 1..Len(srcs) : srcs[i] = <<>> THEN <<>>
    ELSE srcs[CHOOSE i \in 1..Len(srcs) : srcs[i] # <<>> /\ \A j \in 1..(i - 1) : srcs[j] = <<>>]

\* every source of the request is absent, empty or a list of numbers
WellFormed(in) ==
    /\ in.json.shape \in {"ids", "noids"}
    /\ in.form.shape \in {"ids", "noids"}
    /\ \A i \in 1..Len(in.query) : Atoi(in.query[i]).ok

\* C20: Batch Delete takes its ids from the first non-empty of the JSON
\* body's ids, the ids query parameter and the form body's ids, in this
\* order; a non-empty source below an absent or empty one is used and the
\* request is not rejected
C20_FirstNonEmptySourceWins ==
    \A r \in Reqs : req[r].pc = "open" =>
        \A in \in DelReqs, t \in Times(View(r)) :
            WellFormed(in) =>
                /\ BatchIds(in).st = "ok"
                /\ BatchIds(in).ids = FirstNonEmpty(Sources(in))
                /\ FirstNonEmpty(Sources(in)) # <<>> =>
                       BatchDeleteResult(View(r), in, 0, t).out.why # "empty"

\* JSON arrays of up to MaxBatch elements, objects or not, and bodies that
\* are no object and no array or come under another content type
UnbindBodies ==
    CreateBodies
    \cup {Body(JSONType, "array", items) :
             items \in SeqsUpTo({Elem(rec) : rec \in UpdateRecs} \cup {NonObject}, MaxBatch)}
    \cup {Body(JSONType, "scalar", <<>>), Body("text/plain", "object", <<Elem(NoKeys)>>),
          Body("", "array", <<>>)}

TableLists == {<<TableName>>, <<TableName, "orders">>}

\* the catalog a process starts on: a fresh database, or the one an earlier
\* run left behind, whose counter the triggers have kept since
StartCatalogs == {FreshCatalog, Catalog(TRUE, counters, {TableName})}

\* C22: after CreateCounter4Table has run for each tracked table, for any
\* number of tables and whether or not the counters table existed before,
\* counters holds one row per tracked table whose value is that table's count
\* of non-deleted rows at registration, and the table's triggers are installed
C22_EveryTableRegistered ==
    Quiescent =>
        \A s0 \in StartCatalogs, tables \in TableLists, n \in 0..MaxRows :
            LET count == (TableName :> ActiveCount(rows)) @@ ("orders" :> n)
                s == RegisterAll(s0, tables, count, 1)
            IN  \A i \in 1..Len(tables) :
                    /\ tables[i] \in DOMAIN s.ctr
                    /\ s.ctr[tables[i]] = count[tables[i]]
                    /\ tables[i] \in s.trig

\* the change of the counter the claim asks for
InsertDelta(new) == IF new.deleted_at = 0 THEN 1 ELSE 0

UpdateDelta(old, new) ==
    IF old.deleted_at = 0 /\ new.deleted_at # 0 THEN 0 - 1
    ELSE IF old.deleted_at # 0 /\ new.deleted_at = 0 THEN 1
    ELSE 0

\* C23: on each of the three backends the triggers change the counter by +1
\* exactly when a row is inserted with deletion marker 0, by -1 exactly when
\* an update moves the marker from 0 to non-zero, by +1 exactly when an update
\* moves it from non-zero to 0, and by 0 for every other row event
C23_TriggersCountLiveRows ==
    \A r \in Reqs : req[r].pc = "open" =>
        \A db \in DBTypes, i \in 1..Len(View(r).rows), dv \in 0..MaxTime :
            LET row == View(r).rows[i]
                new == [row EXCEPT !.deleted_at = dv]
            IN  /\ InsertTrigger(db, new) = InsertDelta(new)
                /\ UpdateTrigger(row, new) = UpdateDelta(row, new)

\* the rows of before that are live there and soft-deleted in after
Transitions(before, after) ==
    Cardinality({i \in 1..Len(before) : before[i].deleted_at = 0 /\ after[i].deleted_at # 0})

\* C24: for any interleaving of concurrent requests that insert or soft-delete
\* rows, each in its own transaction, every step changes the committed counter
\* by the inserts it commits minus the active-to-deleted transitions it
\* commits, so that once all transactions have ended the counter is its
\* initial value plus the committed inserts minus the committed transitions
\* and a rolled-back transaction contributes nothing
C24_CounterFollowsCommits ==
    [][/\ Len(rows') >= Len(rows)
       /\ counters'[TableName] - counters[TableName]
              = (Len(rows') - Len(rows)) - Transitions(rows, rows')
       /\ \A r \in ConcReqs :
              (req[r].pc # "done" /\ req'[r].pc = "done" /\ req'[r].tx # "committed") =>
                  rows' = rows /\ counters' = counters]_vars

\* two requests in flight at once: an insert that is not yet committed holds
\* the write lock while a delete has been answered from the committed rows
C24_DeleteBesidePendingInsert ==
    \E r, o \in ConcReqs :
        /\ r # o
        /\ req[r].pc = "handled" /\ lock = r /\ req[r].out.op = "create"
        /\ txCounters[TableName] = counters[TableName] + 1
        /\ req[o].pc = "handled" /\ req[o].out.op = "delete"
        /\ req[o].resp = <<[Resp(200) EXCEPT !.total = 0]>>

\* C25: when counters has no row for the model's table, an unfiltered List
\* falls back to the direct count, so the reported total is the number of
\* non-deleted rows rather than 0
C25_MissingCounterRowFallsBack ==
    \A r \in Reqs : req[r].pc = "open" =>
        \A q \in ListQueries :
            Unfiltered(q) =>
                LET res == ListResult(DB(View(r).rows, NoRows), q, FALSE, 0)
                IN  res.resp[1].code = 200 =>
                        res.resp[1].total = ActiveCount(View(r).rows)

\* bodies of every supported content type, well-formed and not
RereadBodies ==
    CreateBodies
    \cup {Body(ctype, shape, <<Elem(NoKeys)>>) :
             ctype \in {FormType, MultipartType}, shape \in {"form", "malformed"}}

\* C26: after UnbindContext returns, for every supported content type and on
\* both success and parse-error returns, reading the request body again
\* yields the complete original body
C26_BodyCanBeReadAgain ==
    \A r \in Reqs : req[r].pc = "open" =>
        \A body \in RereadBodies :
            body.ctype \in {JSONType, FormType, MultipartType} => BodyLeft(body) = {"all"}

\* C27: the schema description of a record type is constructed at most once
\* per process under any interleaving of concurrent requests, later requests
\* reusing the memoized result: of the requests answered so far at most one
\* has constructed it
C27_SchemaBuiltAtMostOnce ==
    Cardinality({r \in ConcReqs : req[r].pc \in {"handled", "done"}
                                   /\ BuildsSchema(req[r].out.op)}) <= 1

\* C28: every handler invocation writes exactly one HTTP response on every
\* path; when UnbindContext fails in Create or in single Update the 400 is
\* the only response written
C28_ExactlyOneResponse ==
    \A r \in Reqs :
        (req[r].pc \in {"handled", "done"} /\ req[r].panic = "none") =>
            Len(req[r].resp) = 1

\* Create payloads, among them one that names an identifier through the
\* embedded BaseModel
OwnIdRecs ==
    CreateRecs \cup {("username" :> JStr(<<"b">>)) @@ ("basemodel" :> JObj(MaxRows))}

\* C29: every record persisted by Create is active and store-assigned:
\* whatever keys the payload holds, the created row has deletion marker 0 and
\* the identifier the store chose
C29_CreatedRowsActiveAndStoreAssigned ==
    \A r \in Reqs : (req[r].pc = "open" /\ Len(View(r).rows) < MaxRows) =>
        \A rec \in OwnIdRecs, t \in Times(View(r)) :
            LET d == View(r)
                made == CreateResult(dbType, d, Body(JSONType, "object", <<Elem(rec)>>), 0, t)
                new == made.d.rows[Len(made.d.rows)]
            IN  made.resp[Len(made.resp)].code = 201 =>
                    /\ Len(made.d.rows) = Len(d.rows) + 1
                    /\ new.deleted_at = 0
                    /\ new.id = MaxId(d.rows) + 1

\* the rows of before that are live there and soft-deleted in after, by index
Deleted(before, after) ==
    {i \in 1..Len(before) : before[i].deleted_at = 0 /\ after[i].deleted_at # 0}

\* C30: single Delete moves at most one row from active to deleted, namely
\* the row whose identifier equals the path id, for every path-id string,
\* numeric or not; batch Delete with an empty or absent id list deletes no
\* row and answers 400
C30_DeleteHitsOnlyThePathId ==
    \A r \in Reqs : req[r].pc = "open" =>
        \A t \in Times(View(r)) :
            LET d == View(r)
            IN  /\ \A id \in PathIds \cup RawPaths :
                       LET gone == Deleted(d.rows, DeleteResult(d, id, 0, t).d.rows)
                       IN  /\ Cardinality(gone) <= 1
                           /\ \A i \in gone : Itoa(d.rows[i].id) = id
                /\ \A in \in DelReqs :
                       (WellFormed(in) /\ FirstNonEmpty(Sources(in)) = <<>>) =>
                           LET res == BatchDeleteResult(d, in, 0, t)
                           IN  res.d = d /\ res.resp = <<Resp(400)>>

====
